---- MODULE Spec2Model ----
(***************************************************************************)
(* russenger_macro: the `#[action]` attribute macro (src/lib.rs).          *)
(*                                                                         *)
(* A token stream is a sequence of tokens (strings).  An identifier, a     *)
(* type expression, an attribute, a generic parameter list, a where        *)
(* predicate and a statement are each one opaque token; delimiters,        *)
(* keywords and punctuation are tokens of their own.                       *)
(*                                                                         *)
(* Compile time: the compiler hands each annotated declaration of the      *)
(* crate to `action`, which parses it as a syn::ItemFn and quotes the      *)
(* replacement.  Run time: the emitted function is called and the handle   *)
(* it returns is polled by whoever holds it.                               *)
(***************************************************************************)
EXTENDS Naturals, Sequences, FiniteSets, TLC

VARIABLES
    crate,      \* the annotated declarations of the crate: [attr, item]
    expanded,   \* per declaration: <<>> (not expanded yet) or <<output stream>>
    calls,      \* run time: the calls made of the emitted fn: [v], the value passed
    handles,    \* run time: per call, the handle it returned
    ran         \* run time: per call, the body statements executed so far

vars == <<crate, expanded, calls, handles, ran>>

----------------------------------------------------------------------------
(* Bounds of the model *)

MaxParams == 2
MaxStmts == 2
MaxHandles == 2

----------------------------------------------------------------------------
(* Lexical classes *)

EOF == "<eof>"
Marker == "#[action]"
AttrTokens == {"#[doc]", Marker}
IdentTokens == {"Main", "Hello", "res", "req"}
TypeTokens == {"Res", "Req", "u8", "()", "T"}
GenericTokens == {"<T>"}
PredicateTokens == {"T:Send"}
AbiTokens == {"\"C\""}
StmtTokens == {"count+=1;", "res.send(req).await;"}

\* The return type the macro writes (lib.rs line 46), one type expression.
FixedReturnType == "std::pin::Pin<Box<dyn std::future::Future<Output=error::Result<()>>>>"

At(ts, i) == IF i >= 1 /\ i <= Len(ts) THEN ts[i] ELSE EOF

RECURSIVE Count(_, _)
Count(ts, t) ==
    IF ts = <<>> THEN 0
    ELSE (IF Head(ts) = t THEN 1 ELSE 0) + Count(Tail(ts), t)

----------------------------------------------------------------------------
(* syn: parsing a token stream as an ItemFn (lib.rs line 35) *)

\* The index of the delimiter that closes the group opened just before i
\* (0: none).
RECURSIVE MatchClose(_, _, _, _, _)
MatchClose(ts, i, open, close, depth) ==
    IF i > Len(ts) THEN 0
    ELSE IF ts[i] = close
         THEN (IF depth = 0 THEN i ELSE MatchClose(ts, i + 1, open, close, depth - 1))
    ELSE IF ts[i] = open THEN MatchClose(ts, i + 1, open, close, depth + 1)
    ELSE MatchClose(ts, i + 1, open, close, depth)

\* Attribute::parse_outer: the index of the first token after the attributes.
RECURSIVE SkipAttrs(_, _)
SkipAttrs(ts, i) == IF At(ts, i) \in AttrTokens THEN SkipAttrs(ts, i + 1) ELSE i

\* Punctuated<FnArg, Token![,]>: pat : ty, comma separated, trailing comma allowed.
RECURSIVE ArgsOk(_)
ArgsOk(ts) ==
    \/ ts = <<>>
    \/ /\ Len(ts) >= 3
       /\ ts[1] \in IdentTokens /\ ts[2] = ":" /\ ts[3] \in TypeTokens
       /\ \/ Len(ts) = 3
          \/ ts[4] = "," /\ ArgsOk(SubSeq(ts, 5, Len(ts)))

\* The FnArgs of a punctuated list, in order: <<pat, ty>> each.
RECURSIVE ArgPairs(_)
ArgPairs(ts) ==
    IF Len(ts) < 3 THEN <<>>
    ELSE <<<<ts[1], ts[3]>>>> \o ArgPairs(SubSeq(ts, 5, Len(ts)))

\* Block::parse_within: statements, then at most one trailing expression.
RECURSIVE StmtsOk(_)
RECURSIVE ExprOk(_)
StmtsOk(ts) ==
    \/ ts = <<>>
    \/ Head(ts) \in StmtTokens /\ StmtsOk(Tail(ts))
    \/ ExprOk(ts)

ExprOk(ts) ==
    \/ /\ Len(ts) >= 4
       /\ ts[1] = "Box::pin" /\ ts[2] = "("
       /\ MatchClose(ts, 3, "(", ")", 0) = Len(ts)
       /\ ExprOk(SubSeq(ts, 3, Len(ts) - 1))
    \/ /\ Len(ts) >= 4
       /\ ts[1] = "async" /\ ts[2] = "move" /\ ts[3] = "{"
       /\ MatchClose(ts, 4, "{", "}", 0) = Len(ts)
       /\ StmtsOk(SubSeq(ts, 4, Len(ts) - 1))

ParseError(msg) ==
    [ok |-> FALSE, err |-> msg, pos |-> 0, attrs |-> <<>>, vis |-> "inherited",
     constness |-> FALSE, asyncness |-> FALSE, unsafety |-> FALSE, abi |-> "",
     ident |-> "", generics |-> "", inputs |-> [args |-> <<>>, trailing |-> FALSE],
     output |-> "", where |-> "", block |-> <<>>]

ParseStart == [ParseError("") EXCEPT !.ok = TRUE, !.pos = 1]

\* Each step of the parser takes the item parsed so far, st, whose pos is the
\* cursor in the stream; after an error the remaining steps do nothing.

\* Attribute::parse_outer
ParseAttrs(ts, st) ==
    [st EXCEPT !.attrs = SubSeq(ts, st.pos, SkipAttrs(ts, st.pos) - 1),
               !.pos = SkipAttrs(ts, st.pos)]

\* Visibility
ParseVis(ts, st) ==
    IF At(ts, st.pos) = "pub" THEN [st EXCEPT !.vis = "pub", !.pos = @ + 1] ELSE st

\* Signature: Option<Token![const]>, Option<Token![async]>, Option<Token![unsafe]>
ParseQualifiers(ts, st) ==
    LET c == IF At(ts, st.pos) = "const" THEN 1 ELSE 0
        y == IF At(ts, st.pos + c) = "async" THEN 1 ELSE 0
        u == IF At(ts, st.pos + c + y) = "unsafe" THEN 1 ELSE 0
    IN  [st EXCEPT !.constness = c = 1, !.asyncness = y = 1, !.unsafety = u = 1,
                   !.pos = @ + c + y + u]

\* Signature: Option<Abi>
ParseAbi(ts, st) ==
    IF At(ts, st.pos) # "extern" THEN st
    ELSE IF At(ts, st.pos + 1) \in AbiTokens
         THEN [st EXCEPT !.abi = ts[st.pos + 1], !.pos = @ + 2]
    ELSE [st EXCEPT !.abi = "extern", !.pos = @ + 1]

\* Signature: Token![fn], Ident, Generics
ParseFnName(ts, st) ==
    IF ~st.ok THEN st
    ELSE IF At(ts, st.pos) # "fn" THEN ParseError("expected fn")
    ELSE IF At(ts, st.pos + 1) \notin IdentTokens THEN ParseError("expected identifier")
    ELSE IF At(ts, st.pos + 2) \in GenericTokens
         THEN [st EXCEPT !.ident = ts[st.pos + 1], !.generics = ts[st.pos + 2], !.pos = @ + 3]
    ELSE [st EXCEPT !.ident = ts[st.pos + 1], !.pos = @ + 2]

\* Signature: parenthesized!(..) and the punctuated FnArgs in it
ParseInputs(ts, st) ==
    LET rp == MatchClose(ts, st.pos + 1, "(", ")", 0)
        args == SubSeq(ts, st.pos + 1, rp - 1)
    IN  IF ~st.ok THEN st
        ELSE IF At(ts, st.pos) # "(" \/ rp = 0 THEN ParseError("expected parentheses")
        ELSE IF ~ArgsOk(args) THEN ParseError("expected function argument")
        ELSE [st EXCEPT !.inputs = [args |-> ArgPairs(args),
                                    trailing |-> args # <<>> /\ args[Len(args)] = ","],
                        !.pos = rp + 1]

\* Signature: ReturnType
ParseOutput(ts, st) ==
    IF ~st.ok \/ At(ts, st.pos) # "->" THEN st
    ELSE IF At(ts, st.pos + 1) \notin TypeTokens \cup {FixedReturnType}
         THEN ParseError("expected type")
    ELSE [st EXCEPT !.output = ts[st.pos + 1], !.pos = @ + 2]

\* Signature: Option<WhereClause>
ParseWhere(ts, st) ==
    IF ~st.ok \/ At(ts, st.pos) # "where" THEN st
    ELSE IF At(ts, st.pos + 1) \notin PredicateTokens
         THEN ParseError("expected where predicate")
    ELSE [st EXCEPT !.where = ts[st.pos + 1], !.pos = @ + 2]

\* braced!(..) and Block::parse_within
ParseBlock(ts, st) ==
    LET rb == MatchClose(ts, st.pos + 1, "{", "}", 0)
        stmts == SubSeq(ts, st.pos + 1, rb - 1)
    IN  IF ~st.ok THEN st
        ELSE IF At(ts, st.pos) # "{" \/ rb = 0 THEN ParseError("expected curly braces")
        ELSE IF ~StmtsOk(stmts) THEN ParseError("expected statement")
        ELSE [st EXCEPT !.block = stmts, !.pos = rb + 1]

\* syn::parse: the whole stream must have been consumed
ParseEnd(ts, st) ==
    IF st.ok /\ st.pos <= Len(ts) THEN ParseError("unexpected token") ELSE st

\* impl Parse for ItemFn: outer attributes, visibility, signature (const,
\* async, unsafe, extern abi, fn, ident, generics, inputs, return type,
\* where clause), braced block.
ParseItemFn(ts) ==
    ParseEnd(ts, ParseBlock(ts, ParseWhere(ts, ParseOutput(ts, ParseInputs(ts,
        ParseFnName(ts, ParseAbi(ts, ParseQualifiers(ts, ParseVis(ts,
            ParseAttrs(ts, ParseStart))))))))))

----------------------------------------------------------------------------
(* quote: printing the parts back to tokens (lib.rs lines 45-49) *)

\* ToTokens for Visibility.
PrintVis(vis) == IF vis = "pub" THEN <<"pub">> ELSE <<>>

\* ToTokens for Punctuated<FnArg, Token![,]>.
RECURSIVE PrintArgs(_, _)
PrintArgs(args, trailing) ==
    IF args = <<>> THEN <<>>
    ELSE <<Head(args)[1], ":", Head(args)[2]>>
         \o (IF Len(args) > 1 \/ trailing THEN <<",">> ELSE <<>>)
         \o PrintArgs(Tail(args), trailing)

\* ToTokens for Block.
PrintBlock(block) == <<"{">> \o block \o <<"}">>

\* Variants of quote, each with one slip, for checking that the claims
\* notice it.
\* The block is spliced as the function body itself, not in an async block.
quoteEager(vis, ident, inputs, block) ==
    PrintVis(vis) \o <<"fn", ident, "(">> \o PrintArgs(inputs.args, inputs.trailing)
    \o <<")", "->", FixedReturnType>> \o PrintBlock(block)

\* The parameter list is written out as the documented (res, req) pair.
quoteResReq(vis, ident, inputs, block) ==
    PrintVis(vis) \o <<"fn", ident, "(", "res", ":", "Res", ",", "req", ":", "Req">>
    \o <<")", "->", FixedReturnType, "{", "Box::pin", "(", "async", "move">>
    \o PrintBlock(block) \o <<")", "}">>

\* The block is not spliced in.
quoteNoBlock(vis, ident, inputs, block) ==
    PrintVis(vis) \o <<"fn", ident, "(">> \o PrintArgs(inputs.args, inputs.trailing)
    \o <<")", "->", FixedReturnType, "{", "Box::pin", "(", "async", "move">>
    \o PrintBlock(<<>>) \o <<")", "}">>

\* quote! { #vis fn #ident(#inputs) -> Pin<Box<dyn Future<..>>> { Box::pin(async move #block) } }
quote(vis, ident, inputs, block) ==
    PrintVis(vis) \o <<"fn", ident, "(">> \o PrintArgs(inputs.args, inputs.trailing)
    \o <<")", "->", FixedReturnType, "{", "Box::pin", "(", "async", "move">>
    \o PrintBlock(block) \o <<")", "}">>

\* syn::Error::to_compile_error, returned by parse_macro_input! on failure.
compile_error(msg) == <<"::core::compile_error!", "{", msg, "}">>

\* Variants of action, each with one slip.
\* The input's return annotation is kept when there is one.
actionKeepOutput(attr, item) ==
    LET input == ParseItemFn(item)
    IN  IF ~input.ok THEN compile_error(input.err)
        ELSE PrintVis(input.vis) \o <<"fn", input.ident, "(">>
             \o PrintArgs(input.inputs.args, input.inputs.trailing)
             \o <<")", "->", IF input.output = "" THEN FixedReturnType ELSE input.output>>
             \o <<"{", "Box::pin", "(", "async", "move">>
             \o PrintBlock(input.block) \o <<")", "}">>

\* An item that does not parse is passed through.
actionLenient(attr, item) ==
    LET input == ParseItemFn(item)
    IN  IF ~input.ok THEN item
        ELSE quote(input.vis, input.ident, input.inputs, input.block)

\* The original declaration is emitted too.
actionKeepOriginal(attr, item) ==
    LET input == ParseItemFn(item)
    IN  IF ~input.ok THEN compile_error(input.err)
        ELSE item \o quote(input.vis, input.ident, input.inputs, input.block)

\* The marker's configuration names the emitted function.
actionConfigured(attr, item) ==
    LET input == ParseItemFn(item)
    IN  IF ~input.ok THEN compile_error(input.err)
        ELSE quote(input.vis, IF attr = <<>> THEN input.ident ELSE attr[1],
                   input.inputs, input.block)

\* pub fn action(_attr, item) -> TokenStream
action(attr, item) ==
    LET input == ParseItemFn(item)
    IN  IF ~input.ok THEN compile_error(input.err)
        ELSE quote(input.vis, input.ident, input.inputs, input.block)

----------------------------------------------------------------------------
(* The declarations a crate may annotate *)

Seqs(S, n) == UNION {[1..k -> S] : k \in 0..n}

ParamPool == {<<"res", "Res">>, <<"req", "Req">>}

\* What a declaration may carry besides visibility, name, parameters, return
\* type and body.
Decorations ==
    { [attrs |-> <<>>,         quals |-> <<>>,                      gen |-> "",    where |-> ""],
      [attrs |-> <<"#[doc]">>, quals |-> <<"async">>,               gen |-> "",    where |-> ""],
      [attrs |-> <<Marker>>,   quals |-> <<>>,                      gen |-> "",    where |-> ""],
      [attrs |-> <<>>,         quals |-> <<"unsafe", "extern", "\"C\"">>, gen |-> "", where |-> ""],
      [attrs |-> <<>>,         quals |-> <<"const">>,               gen |-> "",    where |-> ""],
      [attrs |-> <<>>,         quals |-> <<>>,                      gen |-> "<T>", where |-> "T:Send"] }

Names == {[vis |-> "inherited", ident |-> "Main"], [vis |-> "pub", ident |-> "Hello"]}

ReturnTypes == {"", "u8", FixedReturnType}

FnDescs ==
    { [deco |-> d, name |-> n, params |-> ps, trailing |-> t, ret |-> r, body |-> b] :
        d \in Decorations, n \in Names, ps \in Seqs(ParamPool, MaxParams),
        t \in BOOLEAN, r \in {"", "u8"}, b \in Seqs(StmtTokens, MaxStmts) }

\* The source text of a function definition, as the compiler tokenizes it.
FnTokens(d) ==
    d.deco.attrs \o PrintVis(d.name.vis) \o d.deco.quals \o <<"fn", d.name.ident>>
    \o (IF d.deco.gen = "" THEN <<>> ELSE <<d.deco.gen>>)
    \o <<"(">> \o PrintArgs(d.params, d.trailing) \o <<")">>
    \o (IF d.ret = "" THEN <<>> ELSE <<"->", d.ret>>)
    \o (IF d.deco.where = "" THEN <<>> ELSE <<"where", d.deco.where>>)
    \o <<"{">> \o d.body \o <<"}">>

\* Items that are not function definitions, or are broken ones.
Malformed ==
    { <<"struct", "Main", ";">>,
      <<"pub", "struct", "Main", "{", "}">>,
      <<"#[doc]", "impl", "Main", "{", "}">>,
      <<"fn", "Main", "{", "}">>,
      <<"fn", "(", ")", "{", "}">>,
      <<"fn", "Main", "(", ")", ";">>,
      <<"fn", "Main", "(", "res", ")", "{", "}">>,
      <<"fn", "Main", "(", ")", "->", "{", "}">>,
      <<"fn", "Main", "(", ")", "where", "{", "}">>,
      <<"fn", "Main", "(", ")", "{", "let=;", "}">>,
      <<"fn", "Main", "(", ")", "{", "}", "fn">> }

\* The configuration tokens written in the marker: #[action] or #[action(cfg)].
AttrArgs == {<<>>, <<"cfg">>}

NotExpanded == <<>>

----------------------------------------------------------------------------
(* Compile time *)

\* A crate with two annotated declarations: a function definition and the
\* same definition again with another return annotation (or the same) under
\* another marker configuration, or a malformed item twice.
InitExpand ==
    /\ \/ \E d \in FnDescs, r \in ReturnTypes :
            /\ d.trailing => d.params # <<>>
            /\ crate = << [attr |-> <<>>, item |-> FnTokens(d)],
                          [attr |-> <<"cfg">>, item |-> FnTokens([d EXCEPT !.ret = r])] >>
       \/ \E m \in Malformed :
            crate = << [attr |-> <<>>, item |-> m], [attr |-> <<"cfg">>, item |-> m] >>
    /\ expanded = [i \in 1..2 |-> NotExpanded]
    /\ calls = <<>>
    /\ handles = <<>>
    /\ ran = <<>>

\* The compiler invokes the macro on one annotated declaration and puts the
\* returned stream in its place.
Expand(i) ==
    /\ expanded[i] = NotExpanded
    /\ expanded' = [expanded EXCEPT ![i] = <<action(crate[i].attr, crate[i].item)>>]
    /\ UNCHANGED <<crate, calls, handles, ran>>

NextExpand == \E i \in DOMAIN crate : Expand(i)

SpecExpand == InitExpand /\ [][NextExpand]_vars
----------------------------------------------------------------------------
(* Run time: calling the emitted function and polling the handle *)

Drivers == {"d1", "d2"}
ArgValues == {"alice", "bob"}

IsAwait(stmt) == stmt = "res.send(req).await;"

\* Whether a function body is the one expression Box::pin(async move { .. }).
IsPinnedAsyncBlock(body) ==
    /\ Len(body) >= 7
    /\ SubSeq(body, 1, 5) = <<"Box::pin", "(", "async", "move", "{">>
    /\ MatchClose(body, 6, "{", "}", 0) = Len(body) - 1
    /\ body[Len(body)] = ")"

\* The statements run, wherever they run, with the arguments of the call.
Effects(stmts, from, to, args, byHolder, inPoll) ==
    [j \in 1..(to - from) |->
        [idx |-> from + j, stmt |-> stmts[from + j], args |-> args,
         byHolder |-> byHolder, inPoll |-> inPoll]]

\* Evaluating a call of the emitted function: a block's statements run in
\* the call; an async block runs nothing and becomes a future that owns the
\* arguments moved into it (lib.rs line 47).
CallEmitted(out, args, caller) ==
    LET body == ParseItemFn(out).block
    IN  IF IsPinnedAsyncBlock(body)
        THEN [handle |-> [args |-> args, future |-> SubSeq(body, 6, Len(body) - 2),
                          pc |-> 0, state |-> "created", holder |-> caller],
              now |-> <<>>]
        ELSE [handle |-> [args |-> args, future |-> <<>>,
                          pc |-> 0, state |-> "created", holder |-> caller],
              now |-> Effects(body, 0, Len(body), args, TRUE, FALSE)]

\* Where a poll that starts after statement pc may return: at the end of
\* the block (Ready), or in front of an await that is still pending.
PollStops(h) ==
    {k \in h.pc..Len(h.future) : k = Len(h.future) \/ IsAwait(h.future[k + 1])}

\* Future::poll of the async block through its pinned box: the block's own
\* statements run from where it was suspended, with its own captures.
Poll(h, k, d) ==
    [handle |-> [h EXCEPT !.pc = k,
                          !.state = IF k = Len(h.future) THEN "ready" ELSE "pending"],
     now |-> Effects(h.future, h.pc, k, h.args, d = h.holder, TRUE)]

\* The arguments of a call: one value bound to each parameter of the
\* emitted function.
Bind(out, v) ==
    LET ps == ParseItemFn(out).inputs.args
    IN  [k \in 1..Len(ps) |-> <<ps[k][1], v>>]

RunParams(n) == [k \in 1..n |-> IF k % 2 = 1 THEN <<"res", "Res">> ELSE <<"req", "Req">>]

\* A crate with one handler, written as in the macro's documentation.
InitRun ==
    /\ \E n \in {0, MaxParams}, b \in Seqs(StmtTokens, MaxStmts) :
          crate = << [attr |-> <<>>,
                      item |-> FnTokens([deco |-> [attrs |-> <<"#[doc]">>, quals |-> <<"async">>,
                                                   gen |-> "", where |-> ""],
                                         name |-> [vis |-> "pub", ident |-> "Main"],
                                         params |-> RunParams(n), trailing |-> FALSE,
                                         ret |-> "", body |-> b])] >>
    /\ expanded = [i \in 1..1 |-> NotExpanded]
    /\ calls = <<>>
    /\ handles = <<>>
    /\ ran = <<>>

\* d calls the emitted function and keeps the handle it returns.
Call(d, v) ==
    /\ expanded[1] # NotExpanded
    /\ ParseItemFn(expanded[1][1]).ok
    /\ Len(handles) < MaxHandles
    /\ LET r == CallEmitted(expanded[1][1], Bind(expanded[1][1], v), d)
       IN  /\ handles' = Append(handles, r.handle)
           /\ ran' = Append(ran, r.now)
    /\ calls' = Append(calls, [v |-> v])
    /\ UNCHANGED <<crate, expanded>>

\* A variant of Drive: anyone polls the handle, holder or not.
DriveUnowned(d, h) ==
    /\ handles[h].state # "ready"
    /\ \E k \in PollStops(handles[h]) :
          LET r == Poll(handles[h], k, d)
          IN  /\ handles' = [handles EXCEPT ![h] = r.handle]
              /\ ran' = [ran EXCEPT ![h] = ran[h] \o r.now]
    /\ UNCHANGED <<crate, expanded, calls>>

\* d, holding handle h, polls it once.
Drive(d, h) ==
    /\ handles[h].holder = d
    /\ handles[h].state # "ready"
    /\ \E k \in PollStops(handles[h]) :
          LET r == Poll(handles[h], k, d)
          IN  /\ handles' = [handles EXCEPT ![h] = r.handle]
              /\ ran' = [ran EXCEPT ![h] = ran[h] \o r.now]
    /\ UNCHANGED <<crate, expanded, calls>>

\* The holder of handle h moves it to d.
HandOff(h, d) ==
    /\ handles[h].holder # d
    /\ handles' = [handles EXCEPT ![h].holder = d]
    /\ UNCHANGED <<crate, expanded, calls, ran>>

Init == InitRun

Next ==
    \/ \E i \in DOMAIN crate : Expand(i)
    \/ \E d \in Drivers, v \in ArgValues : Call(d, v)
    \/ \E d \in Drivers, h \in DOMAIN handles : Drive(d, h)
    \/ \E d \in Drivers, h \in DOMAIN handles : HandOff(h, d)

Spec == Init /\ [][Next]_vars

----------------------------------------------------------------------------
(* Reading a token stream without the parser *)

IndexOf(ts, t) ==
    IF \E i \in 1..Len(ts) : ts[i] = t
    THEN CHOOSE i \in 1..Len(ts) : ts[i] = t /\ \A j \in 1..(i - 1) : ts[j] # t
    ELSE 0

LastIndexOf(ts, t) ==
    IF \E i \in 1..Len(ts) : ts[i] = t
    THEN CHOOSE i \in 1..Len(ts) : ts[i] = t /\ \A j \in (i + 1)..Len(ts) : ts[j] # t
    ELSE 0

IsPub(t) == t = "pub"
VisOf(ts) == SelectSeq(SubSeq(ts, 1, IndexOf(ts, "fn") - 1), IsPub)
NameOf(ts) == At(ts, IndexOf(ts, "fn") + 1)
ParamTokens(ts) == SubSeq(ts, IndexOf(ts, "(") + 1, IndexOf(ts, ")") - 1)
ReturnTokens(ts) == SubSeq(ts, IndexOf(ts, ")") + 1, IndexOf(ts, "{") - 1)
BodyTokens(ts) == SubSeq(ts, IndexOf(ts, "{") + 1, LastIndexOf(ts, "}") - 1)

\* The declarations the macro has been invoked on.
Expanded == {i \in DOMAIN crate : expanded[i] # NotExpanded}
\* Those of them that were function definitions in the source.
ExpandedFns == {i \in Expanded : crate[i].item \notin Malformed}
Out(i) == expanded[i][1]
IsCompileError(ts) == At(ts, 1) = "::core::compile_error!"

----------------------------------------------------------------------------
(* Claims about the expansion *)

C3_BodyPreserved ==
    \A i \in Expanded :
        ParseItemFn(crate[i].item).ok =>
            BodyTokens(Out(i)) =
                <<"Box::pin", "(", "async", "move", "{">>
                \o BodyTokens(crate[i].item) \o <<"}", ")">>

C3_Witness ==
    \E i \in ExpandedFns :
        /\ BodyTokens(crate[i].item) = <<"count+=1;", "res.send(req).await;">>
        /\ ~IsCompileError(Out(i))

\* C4: whatever the input's return annotation, the emitted return type is
\* the one fixed type, and two inputs that differ only in the return
\* annotation are expanded to the same declaration.
C4_FixedReturn ==
    /\ \A i \in Expanded :
          ParseItemFn(crate[i].item).ok =>
              ReturnTokens(Out(i)) = <<"->", FixedReturnType>>
    /\ \A i, j \in ExpandedFns : Out(i) = Out(j)

C4_Witness ==
    /\ ExpandedFns = {1, 2}
    /\ ReturnTokens(crate[1].item) = <<"->", "u8">>
    /\ ReturnTokens(crate[2].item) = <<>>

C6_StructAndActionImpl ==
    \A i \in ExpandedFns :
        /\ Count(Out(i), "struct") >= 1
        /\ Count(Out(i), "impl") >= 1
        /\ Count(Out(i), "Action") >= 1
        /\ Count(Out(i), "execute") >= 1
        /\ Count(Out(i), "path") >= 1

\* C7: nothing of the input declaration but its return annotation is lost:
\* attributes, qualifiers, generic parameters and where clause are still
\* present in the emitted declaration.
C7_Lossless ==
    \A i \in ExpandedFns :
        LET p == ParseItemFn(crate[i].item)
            q == ParseItemFn(Out(i))
        IN  /\ q.attrs = p.attrs
            /\ q.constness = p.constness
            /\ q.asyncness = p.asyncness
            /\ q.unsafety = p.unsafety
            /\ q.abi = p.abi
            /\ q.generics = p.generics
            /\ q.where = p.where

C9_OutputOfItemAlone ==
    /\ \A i, j \in Expanded :
          crate[i].item = crate[j].item => Out(i) = Out(j)
    /\ \A i \in Expanded : \A a \in AttrArgs : Out(i) = action(a, crate[i].item)

C9_Witness ==
    /\ Expanded = {1, 2}
    /\ crate[1].item = crate[2].item
    /\ crate[1].attr # crate[2].attr
    /\ ~IsCompileError(Out(1))
----------------------------------------------------------------------------
(* Claims about calls of the emitted function *)

\* C1: a call of the emitted function runs no statement of the original
\* body; statements run only in polls of the handle the call returned, so a
\* handle that was never polled has run nothing.
C1_DeferredExecution ==
    \A h \in DOMAIN handles :
        /\ \A j \in DOMAIN ran[h] : ran[h][j].inPoll
        /\ handles[h].state = "created" => ran[h] = <<>>

C1_Witness ==
    \E h, g \in DOMAIN handles :
        /\ handles[h].state = "created"
        /\ Len(BodyTokens(crate[1].item)) = 2
        /\ Len(ran[g]) = 2

====
